---- MODULE Spec2Model ----
(***************************************************************************)
(* RTCP packet codec: the Congestion-Control Feedback Report of RFC 8888   *)
(* (rfc8888.go), its report blocks and bit-packed metric blocks, and the   *)
(* Application-Defined packet exercised by the application packet tests.   *)
(*                                                                         *)
(* Byte buffers are Go slices: a backing array `data` (as long as the      *)
(* slice's capacity) and a length `len`.  uint16 arithmetic is done        *)
(* modulo 2^16 wherever the source computes in uint16.                     *)
(***************************************************************************)
EXTENDS Integers, Sequences, FiniteSets, TLC

VARIABLES
    pc,            \* position of the scenario being run
    metricBlock,   \* CCFeedbackMetricBlock value handed to marshal
    metricRaw,     \* bytes handed to / produced for a metric block
    metricOut,     \* [err, b]: result of CCFeedbackMetricBlock.unmarshal
    blockRaw,      \* slice handed to CCFeedbackReportBlock.unmarshal
    blockOut,      \* [err, b]: its result
    report,        \* CCFeedbackReport value handed to Marshal (V)
    input,         \* where rawPacket comes from: none / marshalled / truncated / wire
    rawPacket,     \* slice handed to CCFeedbackReport.Unmarshal
    b,             \* receiver of CCFeedbackReport.Unmarshal
    bBefore,       \* the receiver as it was when Unmarshal was called
    offset,        \* Unmarshal's read offset (uint16)
    decoded,       \* number of report-block decodes attempted by the loop
    oob,           \* TRUE once a decode read a byte beyond len() of its input
    err,           \* outcome of the last Marshal / Unmarshal
    app,           \* ApplicationDefined value handed to Marshal
    appRaw,        \* bytes produced by ApplicationDefined.Marshal
    appErr         \* its error

vars == <<pc, metricBlock, metricRaw, metricOut, blockRaw, blockOut, report,
          input, rawPacket, b, bBefore, offset, decoded, oob, err, app, appRaw,
          appErr>>

metricVars == <<metricBlock, metricRaw, metricOut>>
blockVars == <<blockRaw, blockOut>>
reportVars == <<report, input, rawPacket, b, bBefore, offset, decoded, err>>
\* oob is shared by the report-block and the report scenarios
appVars == <<app, appRaw, appErr>>

-----------------------------------------------------------------------------
(* Fixed-width integers and byte order (encoding/binary, BigEndian).       *)

Pow2(n) == 2 ^ n

U16(n) == n % 65536

PutUint16(v) == <<(v \div 256) % 256, v % 256>>

Uint16(b0, b1) == b0 * 256 + b1

\* A uint32 is kept as its two 16-bit halves, value = hi * 65536 + lo.
U32(hi, lo) == [hi |-> hi, lo |-> lo]

PutUint32(v) == PutUint16(v.hi) \o PutUint16(v.lo)

Uint32(b0, b1, b2, b3) == U32(Uint16(b0, b1), Uint16(b2, b3))

Zeros(n) == [i \in 1..n |-> 0]

\* A freshly allocated slice: capacity equals length.
Slice(bytes) == [data |-> bytes, len |-> Len(bytes)]

\* s[a:] : shares the backing array, so the capacity shrinks with the length.
SliceFrom(s, a) == [data |-> SubSeq(s.data, a + 1, Len(s.data)), len |-> s.len - a]

\* s[:n] : a shorter view of the same backing array.
SliceTo(s, n) == [data |-> s.data, len |-> n]

\* The bytes a slice shows to len().
Visible(s) == SubSeq(s.data, 1, s.len)

-----------------------------------------------------------------------------
(* Error values.                                                           *)

nil == "nil"
panic == "panic"
errPacketTooShort == "errPacketTooShort"
errInvalidHeader == "errInvalidHeader"
errInvalidLength == "errInvalidLength"
errInvalidSizeOrStartIndex == "errInvalidSizeOrStartIndex"
errTooManyReports == "errTooManyReports"
errReportBlockLength == "errReportBlockLength"
errIncorrectNumReports == "errIncorrectNumReports"
errMetricBlockLength == "errMetricBlockLength"
errAppDefinedDataTooLarge == "errAppDefinedDataTooLarge"
errAppDefinedInvalidName == "errAppDefinedInvalidName"

-----------------------------------------------------------------------------
(* Bit-field packer.                                                       *)

\* set_bits(word, bit_width, bit_offset_from_msb, value): value must fit in
\* bit_width bits; the other bits of the word are left untouched.
setNBitsOfUint16(src, size, startIndex, val) ==
    IF startIndex + size > 16 \/ val >= Pow2(size)
    THEN [err |-> errInvalidSizeOrStartIndex, v |-> 0]
    ELSE LET shift == 16 - size - startIndex
             old == (src \div Pow2(shift)) % Pow2(size)
         IN [err |-> nil, v |-> src - old * Pow2(shift) + val * Pow2(shift)]

-----------------------------------------------------------------------------
(* Metric block codec.                                                     *)

ECNNonECT == 0
ECNECT1 == 1
ECNECT0 == 2
ECNCE == 3
metricBlockLength == 2

ZeroMetricBlock == [Received |-> FALSE, ECN |-> ECNNonECT, ArrivalTimeOffset |-> 0]

\* CCFeedbackMetricBlock.marshal: the three fields are packed whatever the
\* received flag is.
CCFeedbackMetricBlock_marshal(mb) ==
    LET r == IF mb.Received THEN 1 ELSE 0
        d1 == setNBitsOfUint16(0, 1, 0, r)
        d2 == setNBitsOfUint16(d1.v, 2, 1, mb.ECN)
        d3 == setNBitsOfUint16(d2.v, 13, 3, mb.ArrivalTimeOffset)
    IN IF d1.err # nil THEN [err |-> d1.err, buf |-> <<>>]
       ELSE IF d2.err # nil THEN [err |-> d2.err, buf |-> <<>>]
       ELSE IF d3.err # nil THEN [err |-> d3.err, buf |-> <<>>]
       ELSE [err |-> nil, buf |-> PutUint16(d3.v)]

\* A plausible slip: the offset mask drops the top bit of the 13-bit field.
CCFeedbackMetricBlock_unmarshal_narrowMask(mb, raw) ==
    IF Len(raw) # metricBlockLength THEN [err |-> errMetricBlockLength, b |-> mb]
    ELSE IF raw[1] < 128 THEN [err |-> nil, b |-> ZeroMetricBlock]
    ELSE [err |-> nil,
          b |-> [Received |-> TRUE,
                 ECN |-> (raw[1] \div 32) % 4,
                 ArrivalTimeOffset |-> Uint16(raw[1], raw[2]) % 4096]]

\* CCFeedbackMetricBlock.unmarshal on receiver mb and the bytes raw.
CCFeedbackMetricBlock_unmarshal(mb, raw) ==
    IF Len(raw) # metricBlockLength THEN [err |-> errMetricBlockLength, b |-> mb]
    ELSE IF raw[1] < 128 THEN [err |-> nil, b |-> ZeroMetricBlock]
    ELSE [err |-> nil,
          b |-> [Received |-> TRUE,
                 ECN |-> (raw[1] \div 32) % 4,
                 ArrivalTimeOffset |-> Uint16(raw[1], raw[2]) % 8192]]

-----------------------------------------------------------------------------
(* Report block codec.                                                     *)

beginSequenceOffset == 4
numReportsOffset == 6
reportsOffset == 8
maxMetricBlocks == 16384

ZeroReportBlock == [MediaSSRC |-> U32(0, 0), BeginSequence |-> 0, MetricBlocks |-> <<>>]

\* CCFeedbackReportBlock.Len: uint16(reportsOffset + 2*uint16(n)).
CCFeedbackReportBlock_Len(blk) ==
    LET n0 == Len(blk.MetricBlocks)
        n == IF n0 % 2 # 0 THEN n0 + 1 ELSE n0
    IN U16(reportsOffset + U16(2 * U16(n)))

\* CCFeedbackReportBlock.marshal.
CCFeedbackReportBlock_marshal(blk) ==
    LET n == Len(blk.MetricBlocks)
        ms == [i \in 1..n |-> CCFeedbackMetricBlock_marshal(blk.MetricBlocks[i])]
        bad == {i \in 1..n : ms[i].err # nil}
        first == CHOOSE i \in bad : \A j \in bad : i <= j
        ssrc == PutUint32(blk.MediaSSRC)
        seq == PutUint16(blk.BeginSequence)
        num == PutUint16(U16(n))
    IN IF n > maxMetricBlocks THEN [err |-> errTooManyReports, buf |-> <<>>]
       ELSE IF bad # {} THEN [err |-> ms[first].err, buf |-> <<>>]
       ELSE [err |-> nil,
             buf |-> [j \in 1..CCFeedbackReportBlock_Len(blk) |->
                        IF j <= beginSequenceOffset THEN ssrc[j]
                        ELSE IF j <= numReportsOffset THEN seq[j - beginSequenceOffset]
                        ELSE IF j <= reportsOffset THEN num[j - numReportsOffset]
                        ELSE LET i == ((j - reportsOffset - 1) \div 2) + 1
                             IN IF i <= n
                                THEN ms[i].buf[((j - reportsOffset - 1) % 2) + 1]
                                ELSE 0]]

\* numReports read from the wire (bytes 6 and 7 of the block).
NumReports(raw) == Uint16(raw.data[numReportsOffset + 1], raw.data[numReportsOffset + 2])

\* The slice bounds rawPacket[offset : offset+2] of loop iteration i (0-based),
\* both computed in uint16.
MetricLow(i) == U16(reportsOffset + U16(2 * i))
MetricHigh(i) == U16(MetricLow(i) + 2)

\* The slice expression panics when low > high or high > cap(rawPacket).
MetricSlicePanics(raw, i) ==
    MetricLow(i) > MetricHigh(i) \/ MetricHigh(i) > Len(raw.data)

\* The slice expression reads beyond len(rawPacket) (allowed up to the capacity).
MetricSliceOutside(raw, i) == MetricHigh(i) > raw.len

\* reportsOffset+numReports*2, evaluated in uint16 before the conversion to int.
NeededBytes(numReports) == U16(reportsOffset + U16(numReports * 2))

\* CCFeedbackReportBlock.unmarshal on receiver blk and the slice raw.
\* Result: err, the receiver afterwards, and whether a byte beyond len(raw)
\* was read.
CCFeedbackReportBlock_unmarshal(blk, raw) ==
    IF raw.len < reportsOffset
    THEN [err |-> errReportBlockLength, b |-> blk, oob |-> FALSE]
    ELSE
      LET d == raw.data
          hdr == [blk EXCEPT
                    !.MediaSSRC = Uint32(d[1], d[2], d[3], d[4]),
                    !.BeginSequence = Uint16(d[5], d[6])]
          numReports == NumReports(raw)
          panics == \E i \in 0..(numReports - 1) : MetricSlicePanics(raw, i)
          \* the first iteration whose slice expression panics
          first == CHOOSE i \in 0..(numReports - 1) :
                      /\ MetricSlicePanics(raw, i)
                      /\ \A j \in 0..(i - 1) : ~MetricSlicePanics(raw, j)
          outside == \E i \in 0..(numReports - 1) : MetricSliceOutside(raw, i)
      IN IF raw.len < NeededBytes(numReports)
         THEN [err |-> errIncorrectNumReports, b |-> hdr, oob |-> FALSE]
         ELSE IF panics
         THEN [err |-> panic, b |-> hdr,
               oob |-> \E i \in 0..(first - 1) : MetricSliceOutside(raw, i)]
         ELSE [err |-> nil,
               b |-> [hdr EXCEPT !.MetricBlocks =
                        [i \in 1..numReports |->
                           CCFeedbackMetricBlock_unmarshal(ZeroMetricBlock,
                               <<d[MetricLow(i - 1) + 1], d[MetricLow(i - 1) + 2]>>).b]],
               oob |-> outside]

-----------------------------------------------------------------------------
(* Common header codec.                                                    *)

headerLength == 4
ssrcLength == 4
rtpVersion == 2
countMax == 31

ZeroHeader == [Padding |-> FALSE, Count |-> 0, Type |-> 0, Length |-> 0]

\* Header.Marshal: version, padding bit, 5-bit count, packet type and the
\* 16-bit length field of the header value, in network byte order.
Header_Marshal(h) ==
    IF h.Count > countMax THEN [err |-> errInvalidHeader, buf |-> <<>>]
    ELSE [err |-> nil,
          buf |-> <<rtpVersion * 64 + (IF h.Padding THEN 32 ELSE 0) + h.Count,
                    h.Type>> \o PutUint16(h.Length)]

\* Header.Unmarshal: parses the fields and requires the declared length to be
\* the one derived from the bytes supplied, len/4 - 1.
Header_Unmarshal(h, raw) ==
    IF raw.len < headerLength THEN [err |-> errPacketTooShort, h |-> h]
    ELSE LET d == raw.data
             length == Uint16(d[3], d[4])
         IN IF length # (raw.len \div 4) - 1
            THEN [err |-> errInvalidLength, h |-> h]
            ELSE [err |-> nil,
                  h |-> [Padding |-> (d[1] \div 32) % 2 = 1,
                         Count |-> d[1] % 32,
                         Type |-> d[2],
                         Length |-> length]]

-----------------------------------------------------------------------------
(* Congestion-Control Feedback Report codec.                               *)

reportTimestampLength == 4
reportBlockOffset == 8

RECURSIVE SumBlockLen(_, _)
\* The loop of CCFeedbackReport.Len: n += block.Len(), in uint16.
SumBlockLen(blocks, i) ==
    IF i = 0 THEN 0
    ELSE U16(SumBlockLen(blocks, i - 1) + CCFeedbackReportBlock_Len(blocks[i]))

\* CCFeedbackReport.Len (a uint16).
CCFeedbackReport_Len(r) ==
    U16(U16(reportBlockOffset + SumBlockLen(r.ReportBlocks, Len(r.ReportBlocks)))
        + reportTimestampLength)

\* copy(buf[off:], src): copies min(len(src), len(buf)-off) bytes.
CopyAt(buf, off, src) ==
    [j \in 1..Len(buf) |->
        IF j > off /\ j - off <= Len(src) THEN src[j - off] ELSE buf[j]]

RECURSIVE MarshalBlocks(_, _, _)
\* The block loop of CCFeedbackReport.Marshal from block i on; st is
\* [buf, offset, err].  buf[offset:] panics when offset > len(buf).
MarshalBlocks(blocks, i, st) ==
    IF i > Len(blocks) THEN st
    ELSE LET bm == CCFeedbackReportBlock_marshal(blocks[i])
         IN IF bm.err # nil THEN [st EXCEPT !.err = bm.err]
            ELSE IF st.offset > Len(st.buf) THEN [st EXCEPT !.err = panic]
            ELSE MarshalBlocks(blocks, i + 1,
                    [buf |-> CopyAt(st.buf, st.offset, bm.buf),
                     offset |-> U16(st.offset + CCFeedbackReportBlock_Len(blocks[i])),
                     err |-> nil])

\* CCFeedbackReport.Marshal: [err, buf].  The header is marshalled as the
\* value holds it; the buffer is Len() bytes long.
CCFeedbackReport_Marshal(r) ==
    LET header == Header_Marshal(r.Header)
        size == CCFeedbackReport_Len(r)
        buf0 == CopyAt(CopyAt(Zeros(size), 0, header.buf), headerLength,
                       PutUint32(r.SenderSSRC))
        st == MarshalBlocks(r.ReportBlocks, 1,
                            [buf |-> buf0, offset |-> reportBlockOffset, err |-> nil])
    IN IF header.err # nil THEN [err |-> header.err, buf |-> <<>>]
       ELSE IF size < headerLength + ssrcLength THEN [err |-> panic, buf |-> <<>>]
       ELSE IF st.err # nil THEN [err |-> st.err, buf |-> <<>>]
       ELSE IF st.offset + reportTimestampLength > size
       THEN [err |-> panic, buf |-> <<>>]
       ELSE [err |-> nil,
             buf |-> CopyAt(st.buf, st.offset, PutUint32(r.ReportTimestamp))]

\* reportTimestampOffset := uint16(len(rawPacket) - reportTimestampLength).
ReportTimestampOffset(raw) == U16(raw.len - reportTimestampLength)

\* A plausible slip: the sender SSRC is stored before the header's error is
\* looked at.
UnmarshalPrologue_ssrcFirst(rcv, raw) ==
    IF raw.len < headerLength + ssrcLength + reportTimestampLength
    THEN [err |-> errPacketTooShort, b |-> rcv]
    ELSE LET h == Header_Unmarshal(rcv.Header, raw)
             d == raw.data
             t == ReportTimestampOffset(raw)
             ssrc == Uint32(d[5], d[6], d[7], d[8])
         IN IF h.err # nil
            THEN [err |-> h.err, b |-> [rcv EXCEPT !.Header = h.h, !.SenderSSRC = ssrc]]
            ELSE [err |-> nil,
                  b |-> [Header |-> h.h,
                         SenderSSRC |-> ssrc,
                         ReportBlocks |-> <<>>,
                         ReportTimestamp |->
                             Uint32(d[t + 1], d[t + 2], d[t + 3], d[t + 4])]]

\* Lines 127-141 of Unmarshal on receiver rcv: the length check, the header,
\* the sender SSRC, the timestamp from the last four bytes, the empty list.
UnmarshalPrologue(rcv, raw) ==
    IF raw.len < headerLength + ssrcLength + reportTimestampLength
    THEN [err |-> errPacketTooShort, b |-> rcv]
    ELSE LET h == Header_Unmarshal(rcv.Header, raw)
             d == raw.data
             t == ReportTimestampOffset(raw)
         IN IF h.err # nil THEN [err |-> h.err, b |-> [rcv EXCEPT !.Header = h.h]]
            ELSE [err |-> nil,
                  b |-> [Header |-> h.h,
                         SenderSSRC |-> Uint32(d[5], d[6], d[7], d[8]),
                         ReportBlocks |-> <<>>,
                         ReportTimestamp |->
                             Uint32(d[t + 1], d[t + 2], d[t + 3], d[t + 4])]]

\* The true wire length of a block with n metric blocks.
WireLen(n) == reportsOffset + 2 * (IF n % 2 # 0 THEN n + 1 ELSE n)

RECURSIVE SumWireLen(_, _)
\* The true (unbounded integer) sum of the wire lengths of blocks 1..i.
SumWireLen(blocks, i) ==
    IF i = 0 THEN 0
    ELSE SumWireLen(blocks, i - 1) + WireLen(Len(blocks[i].MetricBlocks))

\* The true byte size of a report: 12 + the sum of its blocks' wire lengths.
TrueSize(r) ==
    reportBlockOffset + SumWireLen(r.ReportBlocks, Len(r.ReportBlocks))
        + reportTimestampLength

-----------------------------------------------------------------------------
(* Application-Defined packet codec.                                       *)

TypeApplicationDefined == 204
appOverhead == 12
appOverheadWithMediaSSRC == 16
appNameLength == 4
appMaxTotal == 65535

\* Header, sender SSRC and name, plus the media SSRC in the layout that has one.
AppOverhead(a) == IF a.HasMediaSSRC THEN appOverheadWithMediaSSRC ELSE appOverhead

\* padding = (4 - len(data) % 4) % 4
AppPadding(a) == (4 - (Len(a.Data) % 4)) % 4

\* ApplicationDefined.MarshalSize.
ApplicationDefined_MarshalSize(a) == AppOverhead(a) + Len(a.Data) + AppPadding(a)

\* A plausible slip: the padding bytes are left zero, the count is not written.
ApplicationDefined_Marshal_zeroPadding(a) ==
    LET pad == AppPadding(a)
        total == ApplicationDefined_MarshalSize(a)
        header == Header_Marshal([Padding |-> pad > 0, Count |-> a.SubType,
                                  Type |-> TypeApplicationDefined,
                                  Length |-> (total \div 4) - 1])
    IN IF header.err # nil THEN [err |-> header.err, buf |-> <<>>]
       ELSE IF Len(a.Name) # appNameLength
       THEN [err |-> errAppDefinedInvalidName, buf |-> <<>>]
       ELSE IF Len(a.Data) > appMaxTotal - AppOverhead(a)
       THEN [err |-> errAppDefinedDataTooLarge, buf |-> <<>>]
       ELSE [err |-> nil,
             buf |-> header.buf \o PutUint32(a.SenderSSRC) \o a.Name
                     \o (IF a.HasMediaSSRC THEN PutUint32(a.MediaSSRC) ELSE <<>>)
                     \o a.Data \o [i \in 1..pad |-> 0]]

\* ApplicationDefined.Marshal: [err, buf].  The size check compares the
\* data length before padding with the 0xFFFF - overhead budget.
ApplicationDefined_Marshal(a) ==
    LET pad == AppPadding(a)
        total == ApplicationDefined_MarshalSize(a)
        header == Header_Marshal([Padding |-> pad > 0, Count |-> a.SubType,
                                  Type |-> TypeApplicationDefined,
                                  Length |-> (total \div 4) - 1])
    IN IF header.err # nil THEN [err |-> header.err, buf |-> <<>>]
       ELSE IF Len(a.Name) # appNameLength
       THEN [err |-> errAppDefinedInvalidName, buf |-> <<>>]
       ELSE IF Len(a.Data) > appMaxTotal - AppOverhead(a)
       THEN [err |-> errAppDefinedDataTooLarge, buf |-> <<>>]
       ELSE [err |-> nil,
             buf |-> header.buf \o PutUint32(a.SenderSSRC) \o a.Name
                     \o (IF a.HasMediaSSRC THEN PutUint32(a.MediaSSRC) ELSE <<>>)
                     \o a.Data \o [i \in 1..pad |-> pad]]

\* The validWithPadding case of TestTApplicationPacketMarshal, in the layout
\* with a single SSRC field.
TestValidWithPadding ==
    [Packet |-> [HasMediaSSRC |-> FALSE, SubType |-> 0, SenderSSRC |-> U32(19370, 57771),
                 MediaSSRC |-> U32(0, 0), Name |-> <<83, 85, 73, 84>>,
                 Data |-> <<65, 66, 67, 68, 69>>],
     Want |-> <<160, 204, 0, 4, 75, 170, 225, 171, 83, 85, 73, 84,
                65, 66, 67, 68, 69, 3, 3, 3>>]

\* The same case in the layout with separate sender and media SSRC fields.
TestValidWithPaddingMedia ==
    [Packet |-> [HasMediaSSRC |-> TRUE, SubType |-> 0, SenderSSRC |-> U32(19370, 57771),
                 MediaSSRC |-> U32(4386, 13124), Name |-> <<78, 65, 77, 69>>,
                 Data |-> <<65, 66, 67, 68, 69>>],
     Want |-> <<160, 204, 0, 5, 75, 170, 225, 171, 78, 65, 77, 69,
                17, 34, 51, 68, 65, 66, 67, 68, 69, 3, 3, 3>>]

-----------------------------------------------------------------------------
(* Inputs.                                                                 *)

MaxMetrics == 1
MaxBlocks == 2
MaxTrailing == 9
MaxDataLen == 9
SlackBytes == 4

TypeTransportSpecificFeedback == 205
FormatCCFB == 11

\* A received entry, a lost entry, and a lost entry whose other fields are set.
MetricSamples ==
    { [Received |-> TRUE, ECN |-> ECNECT0, ArrivalTimeOffset |-> 5],
      ZeroMetricBlock,
      [Received |-> FALSE, ECN |-> ECNECT1, ArrivalTimeOffset |-> 0] }

SeqsUpTo(S, n) == UNION {[1..k -> S] : k \in 0..n}

BlockValues ==
    { [MediaSSRC |-> U32(4386, 13124), BeginSequence |-> 7, MetricBlocks |-> m] :
        m \in SeqsUpTo(MetricSamples, MaxMetrics) }

\* The header a caller builds for a report: the length field either matches
\* the report's size or is left over from a 20-byte packet.
ReportHeader(length) ==
    [Padding |-> FALSE, Count |-> FormatCCFB, Type |-> TypeTransportSpecificFeedback,
     Length |-> length]

ReportOf(length, blocks) ==
    [Header |-> ReportHeader(length), SenderSSRC |-> U32(19370, 57771),
     ReportBlocks |-> blocks, ReportTimestamp |-> U32(258, 772)]

LengthField(blocks) ==
    ((reportBlockOffset + SumWireLen(blocks, Len(blocks)) + reportTimestampLength)
        \div 4) - 1

StaleLengths == {4}

ReportValues ==
    UNION { {ReportOf(l, bs) : l \in {LengthField(bs)} \cup StaleLengths} :
            bs \in SeqsUpTo(BlockValues, MaxBlocks) }

ZeroReport ==
    [Header |-> ZeroHeader, SenderSSRC |-> U32(0, 0), ReportBlocks |-> <<>>,
     ReportTimestamp |-> U32(0, 0)]

\* A receiver that already holds an earlier packet.
UsedReport ==
    [Header |-> ReportHeader(4), SenderSSRC |-> U32(0, 9),
     ReportBlocks |-> <<[MediaSSRC |-> U32(0, 3), BeginSequence |-> 1,
                         MetricBlocks |-> <<>>]>>,
     ReportTimestamp |-> U32(0, 1)]

Receivers == {ZeroReport, UsedReport}

\* Bytes that follow a block header on the wire in the hand-built inputs.
Filler(j) == (91 * j + 133) % 256

WireCounts == {0, 1, 2, 3, 32764, 32768, 32769, 65535}

\* One report block as received: header with count c, n bytes after it, and
\* slack bytes of backing array beyond the slice's length.
WireBlock(c, n, slack) ==
    [data |-> PutUint32(U32(4386, 13124)) \o PutUint16(7) \o PutUint16(c)
              \o [j \in 1..(n + slack) |-> Filler(j)],
     len |-> reportsOffset + n]

\* Fewer than 8 bytes, for the too-short case.
ShortBlocks == { [data |-> [j \in 1..k |-> Filler(j)], len |-> k] : k \in {0, 7} }

BlockWire ==
    { WireBlock(c, n, slack) :
        c \in WireCounts, n \in 0..MaxTrailing, slack \in {0, SlackBytes} }
    \cup ShortBlocks

\* A whole packet as received: header with a consistent length field, sender
\* SSRC, then the bytes of WireBlock.
WirePacket(c, n, slack) ==
    LET blk == WireBlock(c, n, slack)
        total == reportBlockOffset + reportsOffset + n
    IN [data |-> Header_Marshal(ReportHeader((total \div 4) - 1)).buf
                 \o PutUint32(U32(19370, 57771)) \o blk.data,
        len |-> total]

PacketWire ==
    { WirePacket(c, n, slack) :
        c \in WireCounts, n \in 0..MaxTrailing, slack \in {0, SlackBytes} }

-----------------------------------------------------------------------------
(* Scenarios.                                                              *)

NoMetricOut == [err |-> nil, b |-> [Received |-> TRUE, ECN |-> ECNCE,
                                    ArrivalTimeOffset |-> 8191]]
NoBlockOut == [err |-> nil, b |-> ZeroReportBlock]
NoSlice == [data |-> <<>>, len |-> 0]
NoApp == [HasMediaSSRC |-> FALSE, SubType |-> 0, SenderSSRC |-> U32(0, 0),
          MediaSSRC |-> U32(0, 0), Name |-> <<>>, Data |-> <<>>]

MetricIdle == metricBlock = ZeroMetricBlock /\ metricRaw = <<>> /\ metricOut = NoMetricOut
BlockIdle == blockRaw = NoSlice /\ blockOut = NoBlockOut
ReportIdle ==
    /\ report = ZeroReport /\ input = "none" /\ rawPacket = NoSlice
    /\ b = ZeroReport /\ bBefore = ZeroReport /\ offset = 0 /\ decoded = 0
    /\ err = nil
AppIdle == app = NoApp /\ appRaw = <<>> /\ appErr = nil

\* --- Congestion-Control Feedback Report: encode, truncate, decode ---

InitReport ==
    /\ \/ /\ pc = "idle" /\ report \in ReportValues
          /\ input = "none" /\ rawPacket = NoSlice
       \/ /\ pc = "ready" /\ report = ZeroReport
          /\ input = "wire" /\ rawPacket \in PacketWire
    /\ b \in Receivers /\ bBefore = b
    /\ offset = 0 /\ decoded = 0 /\ oob = FALSE /\ err = nil
    /\ MetricIdle /\ BlockIdle /\ AppIdle

\* CCFeedbackReport.Marshal on the value `report`.
Marshal ==
    /\ pc = "idle"
    /\ LET res == CCFeedbackReport_Marshal(report)
       IN /\ err' = res.err
          /\ rawPacket' = Slice(res.buf)
          /\ pc' = IF res.err = nil THEN "marshalled" ELSE "failed"
    /\ input' = "marshalled"
    /\ UNCHANGED <<report, b, bBefore, offset, decoded, oob>>
    /\ UNCHANGED <<metricVars, blockVars, appVars>>

\* The encoded packet reaches the decoder whole.
Deliver ==
    /\ pc = "marshalled"
    /\ pc' = "ready"
    /\ UNCHANGED <<reportVars, oob, metricVars, blockVars, appVars>>

\* The encoded packet reaches the decoder with its last k bytes cut off.
Truncate(k) ==
    /\ pc = "marshalled"
    /\ rawPacket' = SliceTo(rawPacket, rawPacket.len - k)
    /\ input' = "truncated"
    /\ pc' = "ready"
    /\ UNCHANGED <<report, b, bBefore, offset, decoded, oob, err>>
    /\ UNCHANGED <<metricVars, blockVars, appVars>>

\* CCFeedbackReport.Unmarshal up to the loop.
UnmarshalBegin ==
    /\ pc = "ready"
    /\ LET res == UnmarshalPrologue(b, rawPacket)
       IN /\ b' = res.b
          /\ err' = res.err
          /\ pc' = IF res.err = nil THEN "loop" ELSE "done"
          /\ offset' = IF res.err = nil THEN reportBlockOffset ELSE offset
    /\ UNCHANGED <<report, input, rawPacket, bBefore, decoded, oob>>
    /\ UNCHANGED <<metricVars, blockVars, appVars>>

\* One iteration of the loop: decode the block at offset, append, advance.
UnmarshalBlock ==
    /\ pc = "loop"
    /\ offset < ReportTimestampOffset(rawPacket)
    /\ LET res == CCFeedbackReportBlock_unmarshal(ZeroReportBlock,
                                                  SliceFrom(rawPacket, offset))
       IN /\ err' = res.err
          /\ oob' = (oob \/ res.oob)
          /\ IF res.err = nil
             THEN /\ b' = [b EXCEPT !.ReportBlocks = Append(@, res.b)]
                  /\ offset' = U16(offset + CCFeedbackReportBlock_Len(res.b))
                  /\ pc' = "loop"
             ELSE /\ UNCHANGED <<b, offset>>
                  /\ pc' = "done"
    /\ decoded' = decoded + 1
    /\ UNCHANGED <<report, input, rawPacket, bBefore>>
    /\ UNCHANGED <<metricVars, blockVars, appVars>>

\* The loop condition fails: return nil.
UnmarshalReturn ==
    /\ pc = "loop"
    /\ ~(offset < ReportTimestampOffset(rawPacket))
    /\ pc' = "done"
    /\ UNCHANGED <<reportVars, oob, metricVars, blockVars, appVars>>

NextReport ==
    \/ Marshal
    \/ Deliver
    \/ \E k \in 1..rawPacket.len : Truncate(k)
    \/ UnmarshalBegin
    \/ UnmarshalBlock
    \/ UnmarshalReturn

SpecReport == InitReport /\ [][NextReport]_vars

\* --- Metric block: encode then decode, and decode of received bytes ---

maxECN == 3
maxArrivalTimeOffset == 8191

\* Every field value in range, and one value beyond each range.
MetricValues ==
    [Received : BOOLEAN, ECN : 0..(maxECN + 1),
     ArrivalTimeOffset : 0..(maxArrivalTimeOffset + 1)]

\* Every 2-byte input, and inputs of 0, 1 and 3 bytes.
MetricWire ==
    {<<x, y>> : x \in 0..255, y \in 0..255}
    \cup {<<>>, <<Filler(1)>>, <<Filler(1), Filler(2), Filler(3)>>}

InitMetric ==
    /\ \/ pc = "encode" /\ metricBlock \in MetricValues /\ metricRaw = <<>>
       \/ pc = "wire" /\ metricBlock = ZeroMetricBlock /\ metricRaw \in MetricWire
    /\ metricOut = NoMetricOut
    /\ oob = FALSE
    /\ BlockIdle /\ ReportIdle /\ AppIdle

\* CCFeedbackMetricBlock.marshal on the value metricBlock.
MetricMarshal ==
    /\ pc = "encode"
    /\ LET res == CCFeedbackMetricBlock_marshal(metricBlock)
       IN /\ metricRaw' = res.buf
          /\ err' = res.err
          /\ pc' = IF res.err = nil THEN "encoded" ELSE "failed"
    /\ UNCHANGED <<metricBlock, metricOut, blockVars, oob, appVars>>
    /\ UNCHANGED <<report, input, rawPacket, b, bBefore, offset, decoded>>

\* CCFeedbackMetricBlock.unmarshal of metricRaw into the receiver metricOut.b.
MetricUnmarshal ==
    /\ pc \in {"encoded", "wire"}
    /\ metricOut' = CCFeedbackMetricBlock_unmarshal(metricOut.b, metricRaw)
    /\ pc' = IF pc = "encoded" THEN "roundtrip" ELSE "decoded"
    /\ UNCHANGED <<metricBlock, metricRaw, blockVars, reportVars, oob, appVars>>

NextMetric ==
    \/ MetricMarshal
    \/ MetricUnmarshal

SpecMetric == InitMetric /\ [][NextMetric]_vars

\* --- Report block: decode of received bytes ---

InitBlock ==
    /\ pc = "block"
    /\ blockRaw \in BlockWire
    /\ blockOut = NoBlockOut
    /\ oob = FALSE
    /\ MetricIdle /\ ReportIdle /\ AppIdle

\* CCFeedbackReportBlock.unmarshal of blockRaw into a fresh block.
BlockUnmarshal ==
    /\ pc = "block"
    /\ LET res == CCFeedbackReportBlock_unmarshal(ZeroReportBlock, blockRaw)
       IN /\ blockOut' = [err |-> res.err, b |-> res.b]
          /\ oob' = res.oob
    /\ pc' = "blockDone"
    /\ UNCHANGED <<blockRaw, metricVars, reportVars, appVars>>

NextBlock == BlockUnmarshal

SpecBlock == InitBlock /\ [][NextBlock]_vars

\* --- Application-Defined packet: encode ---

AppNames == {<<83, 85, 73, 84>>, <<78, 79, 84, 52, 67, 72, 65, 82, 83>>}
AppSubTypes == {0, 31, 32}

\* Short payloads, and zero-filled payloads around the size limit.
AppData ==
    {[i \in 1..n |-> 64 + i] : n \in 0..MaxDataLen}
    \cup {Zeros(n) : n \in (appMaxTotal - appOverheadWithMediaSSRC - 3)
                              ..(appMaxTotal - appOverhead + 1)}

AppValues ==
    [HasMediaSSRC : BOOLEAN, SubType : AppSubTypes, SenderSSRC : {U32(19370, 57771)},
     MediaSSRC : {U32(4386, 13124)}, Name : AppNames, Data : AppData]
    \cup {TestValidWithPadding.Packet, TestValidWithPaddingMedia.Packet}

InitApp ==
    /\ pc = "app"
    /\ app \in AppValues
    /\ appRaw = <<>> /\ appErr = nil
    /\ oob = FALSE
    /\ MetricIdle /\ BlockIdle /\ ReportIdle

\* ApplicationDefined.Marshal on the value app.
AppMarshal ==
    /\ pc = "app"
    /\ LET res == ApplicationDefined_Marshal(app)
       IN /\ appRaw' = res.buf
          /\ appErr' = res.err
    /\ pc' = "appDone"
    /\ UNCHANGED <<app, metricVars, blockVars, reportVars, oob>>

NextApp == AppMarshal

SpecApp == InitApp /\ [][NextApp]_vars

\* --- Sizes: encode of reports up to the largest blocks, and of packets ---

\* A block with the largest metric count marshal accepts.
FullBlock ==
    [MediaSSRC |-> U32(4386, 13124), BeginSequence |-> 7,
     MetricBlocks |-> [i \in 1..maxMetricBlocks |-> ZeroMetricBlock]]

LargeReports ==
    { ReportOf(4, [i \in 1..k |-> FullBlock]) : k \in 1..(MaxBlocks + 1) }

AppSmall == {a \in AppValues : Len(a.Data) <= MaxDataLen}

InitSize ==
    /\ \/ /\ pc = "idle" /\ report \in ReportValues \cup LargeReports /\ app = NoApp
       \/ /\ pc = "app" /\ report = ZeroReport /\ app \in AppSmall
    /\ input = "none" /\ rawPacket = NoSlice
    /\ b = ZeroReport /\ bBefore = ZeroReport
    /\ offset = 0 /\ decoded = 0 /\ oob = FALSE /\ err = nil
    /\ appRaw = <<>> /\ appErr = nil
    /\ MetricIdle /\ BlockIdle

NextSize ==
    \/ Marshal
    \/ AppMarshal

SpecSize == InitSize /\ [][NextSize]_vars

\* --- Decode of received packets, buffers past 65535 bytes included ---

\* Most loop iterations explored on one buffer.
MaxDecodes == 2

\* The metric count whose block has Len() = 0: rounded up to even, twice the
\* count plus the block header is 65536.
WrapCount == ((Pow2(16) - reportsOffset) \div 2) - 1

\* Buffers of 65548 and 65549 bytes holding one block of WrapCount metric
\* blocks: reportTimestampOffset is 8 for the first and 9 for the second.
LargeWire ==
    { WirePacket(WrapCount, Pow2(16) - reportsOffset + extra, 0) :
        extra \in {4, 5} }

InitDecode ==
    /\ pc = "ready" /\ report = ZeroReport
    /\ input = "wire" /\ rawPacket \in PacketWire \cup LargeWire
    /\ b \in Receivers /\ bBefore = b
    /\ offset = 0 /\ decoded = 0 /\ oob = FALSE /\ err = nil
    /\ MetricIdle /\ BlockIdle /\ AppIdle

NextDecode ==
    \/ UnmarshalBegin
    \/ decoded < MaxDecodes /\ UnmarshalBlock
    \/ UnmarshalReturn

SpecDecode == InitDecode /\ [][NextDecode]_vars

-----------------------------------------------------------------------------
(* Properties.                                                             *)

\* The report value has the header length field its own size calls for.
ConsistentHeader(r) == r.Header.Length = LengthField(r.ReportBlocks)

\* C1: round trip of the feedback report.  Every valid report value marshals
\* without error, and unmarshalling the produced bytes succeeds and yields
\* the value itself.  Stated for values whose header already carries the
\* right length, which is the case most favourable to the claim.
C1_RoundTrip ==
    (input = "marshalled" /\ ConsistentHeader(report)) =>
        /\ pc # "failed"
        /\ pc = "done" => (err = nil /\ b = report)

\* C2: the report-block decode checks the declared count against the bytes
\* present.  For an input of at least 8 bytes declaring count c: with fewer
\* than 2*c bytes after the block header the result is IncorrectNumReports
\* and no byte beyond the input is read; otherwise exactly c metric blocks are
\* decoded.
C2_CountValidated ==
    (pc = "blockDone" /\ blockRaw.len >= reportsOffset) =>
        LET c == NumReports(blockRaw)
        IN IF blockRaw.len - reportsOffset < 2 * c
           THEN blockOut.err = errIncorrectNumReports /\ ~oob
           ELSE blockOut.err = nil /\ Len(blockOut.b.MetricBlocks) = c

\* C3: truncation rejection.  Unmarshal of an encoded report with its last
\* k >= 1 bytes removed returns an error, never success, and reads nothing
\* beyond the bytes supplied.
C3_TruncationRejected ==
    (pc = "done" /\ input = "truncated") => (err \notin {nil, panic} /\ ~oob)

\* C4: size consistency.  A successful Marshal is as long as the declared
\* size: MarshalSize() for an Application-Defined packet, and for a report
\* Len(), which is 12 + the true sum of the blocks' wire lengths.
C4_SizeConsistent ==
    /\ (pc = "appDone" /\ appErr = nil) =>
            Len(appRaw) = ApplicationDefined_MarshalSize(app)
    /\ input = "marshalled" =>
            /\ CCFeedbackReport_Len(report) = TrueSize(report)
            /\ pc = "marshalled" => rawPacket.len = CCFeedbackReport_Len(report)

\* C5: metric-block bit packing.  A received block with ECN 0..3 and offset
\* 0..8191 encodes, and decoding its two bytes gives back Received, ECN and
\* offset; two bytes with the top bit clear decode to not received, Non-ECT,
\* offset 0; an input that is not two bytes long fails with MetricBlockLength.
C5_BitPacking ==
    /\ (pc \in {"encoded", "failed", "roundtrip"} /\ metricBlock.Received
          /\ metricBlock.ECN <= maxECN
          /\ metricBlock.ArrivalTimeOffset <= maxArrivalTimeOffset) =>
            /\ pc # "failed"
            /\ Len(metricRaw) = metricBlockLength
            /\ pc = "roundtrip" => metricOut = [err |-> nil, b |-> metricBlock]
    /\ (pc = "decoded" /\ Len(metricRaw) = metricBlockLength /\ metricRaw[1] < 128) =>
            metricOut = [err |-> nil, b |-> ZeroMetricBlock]
    /\ (pc = "decoded" /\ Len(metricRaw) # metricBlockLength) =>
            metricOut.err = errMetricBlockLength

C5_Witness ==
    /\ pc = "roundtrip"
    /\ metricBlock = [Received |-> TRUE, ECN |-> ECNCE, ArrivalTimeOffset |-> 8191]
    /\ metricOut.b = metricBlock

\* C6: padding of the Application-Defined packet.  A successful Marshal adds
\* (4 - len(data) mod 4) mod 4 bytes, so the length is a multiple of 4; the
\* padding bit of byte 0 is set exactly when padding was added; the last byte
\* is then the padding count; the header length field is length/4 - 1.  The
\* validWithPadding test packets encode to the bytes the tests expect.
C6_Padding ==
    (pc = "appDone" /\ appErr = nil) =>
        LET pad == (4 - (Len(app.Data) % 4)) % 4
            n == Len(appRaw)
        IN /\ n = AppOverhead(app) + Len(app.Data) + pad
           /\ n % 4 = 0
           /\ ((appRaw[1] \div 32) % 2 = 1) <=> (pad > 0)
           /\ pad > 0 => appRaw[n] = pad
           /\ Uint16(appRaw[3], appRaw[4]) = (n \div 4) - 1
           /\ app = TestValidWithPadding.Packet => appRaw = TestValidWithPadding.Want
           /\ app = TestValidWithPaddingMedia.Packet =>
                  appRaw = TestValidWithPaddingMedia.Want

C6_Witness ==
    /\ pc = "appDone" /\ appErr = nil
    /\ app = TestValidWithPadding.Packet
    /\ appRaw[Len(appRaw)] = 3

\* C7: size limit of the Application-Defined packet.  Marshal succeeds only
\* when overhead + data + padding is at most 65535 bytes, and a packet with a
\* valid subtype and name whose total would be larger fails with DataTooLarge.
C7_SizeLimit ==
    (pc = "appDone" /\ app.SubType <= countMax /\ Len(app.Name) = appNameLength) =>
        /\ appErr = nil => Len(appRaw) <= appMaxTotal
        /\ ApplicationDefined_MarshalSize(app) > appMaxTotal =>
               appErr = errAppDefinedDataTooLarge

PrologueErrors == {errPacketTooShort, errInvalidLength}
BlockErrors == {errReportBlockLength, errIncorrectNumReports}

SameFields(x, y) ==
    /\ x.SenderSSRC = y.SenderSSRC
    /\ x.ReportBlocks = y.ReportBlocks
    /\ x.ReportTimestamp = y.ReportTimestamp

\* C8 as stated: whenever Unmarshal returns an error the receiver's
\* SenderSSRC, ReportBlocks and ReportTimestamp are as before the call.
C8_ReceiverUntouched ==
    (pc = "done" /\ err \notin {nil, panic}) => SameFields(b, bBefore)

\* C8 as amended: Unmarshal returns at the first failing step and decodes no
\* later block.  On a too-short buffer or a header error the receiver's
\* SenderSSRC, ReportBlocks and ReportTimestamp are as before the call; on a
\* report-block failure the receiver already holds the SenderSSRC and the
\* ReportTimestamp read from the buffer (its last four bytes, for the buffer
\* lengths explored here) and the blocks decoded before the failing one.
C8_ErrorPropagation ==
    (pc = "done" /\ err \notin {nil, panic}) =>
        /\ err \in PrologueErrors \cup BlockErrors
        /\ err \in PrologueErrors => (decoded = 0 /\ SameFields(b, bBefore))
        /\ err \in BlockErrors =>
              LET d == rawPacket.data
                  n == rawPacket.len
              IN /\ decoded = Len(b.ReportBlocks) + 1
                 /\ b.SenderSSRC = U32(d[5] * 256 + d[6], d[7] * 256 + d[8])
                 /\ b.ReportTimestamp =
                        U32(d[n - 3] * 256 + d[n - 2], d[n - 1] * 256 + d[n])
                 /\ offset < n - reportTimestampLength

C8_Witness ==
    /\ pc = "done" /\ err = errReportBlockLength
    /\ Len(b.ReportBlocks) = 1
    /\ ~SameFields(b, bBefore)

\* C9: after a successful Unmarshal, 8 + the wire lengths of the decoded
\* blocks is len(B) - 4: the read offset ends at the timestamp position and
\* no block reaches into the last four bytes.
C9_StopsAtTimestamp ==
    (pc = "done" /\ err = nil) =>
        /\ reportBlockOffset + SumWireLen(b.ReportBlocks, Len(b.ReportBlocks))
              = rawPacket.len - reportTimestampLength
        /\ offset = rawPacket.len - reportTimestampLength

\* C10: a successful Marshal writes (len(output)/4) - 1 into bytes 2..3,
\* whatever length the header value held.
C10_LengthWritten ==
    pc = "marshalled" =>
        Uint16(rawPacket.data[3], rawPacket.data[4]) = (rawPacket.len \div 4) - 1

\* C11: marshal of a metric block with Received = FALSE and its fields in
\* range (ECN 0..3, ArrivalTimeOffset 0..8191) emits the two bytes 0x00 0x00;
\* with Received = TRUE it emits bit 0 = 1, bits 1-2 = ECN and bits 3-15 =
\* ArrivalTimeOffset.
C11_NonReceivedZero ==
    (/\ pc \in {"encoded", "roundtrip"}
     /\ metricBlock.ECN <= maxECN
     /\ metricBlock.ArrivalTimeOffset <= maxArrivalTimeOffset)
    => IF metricBlock.Received
       THEN metricRaw = PutUint16(Pow2(15) + metricBlock.ECN * Pow2(13)
                                  + metricBlock.ArrivalTimeOffset)
       ELSE metricRaw = <<0, 0>>

\* C12: Unmarshal's loop does linear work on every buffer: every iteration
\* that decodes a block raises the read offset by at least 8, so after n
\* decoded blocks the offset is at least 8 + 8n, and the number of decoded
\* blocks never exceeds (len(B) - 12) / 8.
C12_LinearWork ==
    (pc = "loop" \/ (pc = "done" /\ err = nil)) =>
        /\ offset >= reportBlockOffset + reportsOffset * Len(b.ReportBlocks)
        /\ Len(b.ReportBlocks) <=
               (rawPacket.len - (reportBlockOffset + reportTimestampLength))
                   \div reportsOffset

====
